---- MODULE Spec2Model ----
(***************************************************************************)
(* Model of the routing and presence subsystem of src/server.js: the       *)
(* activeConnections registry, the callStates store, the per-company IVR   *)
(* menu handlers, findAvailableAgent and the periodic cleanup timer.       *)
(*                                                                         *)
(* JavaScript strings that the code takes apart (identities, extensions,   *)
(* digits) are sequences of one-character strings, so that                 *)
(* identity.replace('ext_', '') is computed, not assumed.  Strings that    *)
(* the code only compares or uses as keys (company ids, statuses) are      *)
(* TLA+ strings.  Times are milliseconds since the process started.        *)
(***************************************************************************)
EXTENDS Integers, Sequences, FiniteSets, TLC

VARIABLES
    activeConnections,  \* Map identity -> connection, in insertion order
    callStates,         \* Map CallSid -> call state
    companies,          \* the company configuration (extension flags are mutable)
    now,                \* the clock read by new Date()
    nextReap,           \* when the cleanup timer is due next
    last                \* the last event handled and what it answered

vars == <<activeConnections, callStates, companies, now, nextReap, last>>

----------------------------------------------------------------------------
(* JavaScript values *)

\* undefined / null / a missing request field, where the field is a sequence
null == <<"<null>">>

\* the empty string, which is falsy like a missing field
empty == <<>>

Truthy(s) == s # empty /\ s # null

IsPrefix(p, s) == Len(p) <= Len(s) /\ SubSeq(s, 1, Len(p)) = p

\* String.prototype.replace(pattern, replacement) with a string pattern:
\* the first occurrence only
RECURSIVE replace(_, _, _)
replace(s, pattern, replacement) ==
    IF Len(s) < Len(pattern) THEN s
    ELSE IF IsPrefix(pattern, s)
         THEN replacement \o SubSeq(s, Len(pattern) + 1, Len(s))
         ELSE <<Head(s)>> \o replace(Tail(s), pattern, replacement)

----------------------------------------------------------------------------
(* The company configuration *)

x101 == <<"1", "0", "1">>
x102 == <<"1", "0", "2">>
x103 == <<"1", "0", "3">>
x104 == <<"1", "0", "4">>
x201 == <<"2", "0", "1">>
x202 == <<"2", "0", "2">>
x203 == <<"2", "0", "3">>
x204 == <<"2", "0", "4">>

ConnectivExtensions == {x101, x102, x103, x104}
BooksnpayrollExtensions == {x201, x202, x203, x204}

companiesInit ==
    [connectiv |->
        [name |-> "Connectiv", phoneNumber |-> "+18562307373",
         extensions |-> [e \in ConnectivExtensions |-> [available |-> TRUE]]],
     booksnpayroll |->
        [name |-> "Books and Payroll", phoneNumber |-> "+18564053544",
         extensions |-> [e \in BooksnpayrollExtensions |-> [available |-> TRUE]]]]

\* names every object inherits from Object.prototype: companies[name] is a
\* function or an object for them, hence truthy
ObjectPrototypeKeys == {"toString", "constructor"}

\* the truthiness of companies[company]
HasCompany(company) ==
    company \in DOMAIN companies \/ company \in ObjectPrototypeKeys

----------------------------------------------------------------------------
(* Map operations on activeConnections: a sequence of entries, keys unique *)

MapKeys(m) == {m[k].identity : k \in 1..Len(m)}

MapHas(m, identity) == identity \in MapKeys(m)

MapIndex(m, identity) == CHOOSE k \in 1..Len(m) : m[k].identity = identity

MapGet(m, identity) == m[MapIndex(m, identity)]

\* MapSet as a list that is only ever appended to
MapSetAppending(m, entry) == Append(m, entry)

\* Map.prototype.set: an existing key keeps its place, a new key goes last
MapSet(m, entry) ==
    IF MapHas(m, entry.identity)
    THEN [m EXCEPT ![MapIndex(m, entry.identity)] = entry]
    ELSE Append(m, entry)

----------------------------------------------------------------------------
(* Bounds and input sets *)

\* the clock stops after MaxTicks quanta
MaxTicks == 10

ext_ == <<"e", "x", "t", "_">>

ext_101 == ext_ \o x101
ext_102 == ext_ \o x102

\* identities clients ask a token for: two distinct identities that both
\* name extension 101, one that names 102, and a missing one
IdentityInputs == {ext_101, x101, ext_102, empty}

\* the identities of the runs in which the clock advances
ClockedIdentityInputs == {ext_101, x101, empty}

\* company ids clients send: the two configured, an unknown one, a name
\* inherited from Object.prototype, and none
CompanyInputs == {"connectiv", "booksnpayroll", "acme", "toString", ""}

----------------------------------------------------------------------------
(* Clock *)

TTL == 4 * 60 * 60 * 1000

ReapPeriod == 30 * 60 * 1000

\* the granularity of the model's clock
Quantum == ReapPeriod

Init ==
    /\ activeConnections = <<>>
    /\ callStates = [sid \in {} |-> sid]
    /\ companies = companiesInit
    /\ now = 0
    /\ nextReap = ReapPeriod
    /\ last = [op |-> "listen"]


\* time passes; the cleanup timer fires when it is due, so the clock does
\* not pass nextReap before Cleanup has run
Advance ==
    /\ now < MaxTicks * Quantum
    /\ now + Quantum <= nextReap
    /\ now' = now + Quantum
    /\ last' = [op |-> "advance"]
    /\ UNCHANGED <<activeConnections, callStates, companies, nextReap>>

----------------------------------------------------------------------------
(* POST /api/token *)

\* `created` is whether new AccessToken(...) and addGrant returned (they
\* throw when the Twilio credentials are missing from the environment)
Token(identity, company, created) ==
    /\ UNCHANGED <<callStates, companies, now, nextReap>>
    /\ IF ~Truthy(identity) \/ company = ""
       THEN /\ last' = [op |-> "token", status |-> 400]
            /\ UNCHANGED activeConnections
       ELSE IF ~HasCompany(company)
       THEN /\ last' = [op |-> "token", status |-> 400]
            /\ UNCHANGED activeConnections
       ELSE IF ~created
       THEN /\ last' = [op |-> "token", status |-> 500]
            /\ UNCHANGED activeConnections
       ELSE /\ activeConnections' =
                MapSet(activeConnections,
                       [identity |-> identity,
                        company |-> company,
                        extension |-> replace(identity, ext_, empty),
                        connectedAt |-> now,
                        available |-> TRUE])
            /\ last' = [op |-> "token", status |-> 200,
                        identity |-> identity, company |-> company,
                        replaced |-> IF MapHas(activeConnections, identity)
                                     THEN <<MapGet(activeConnections, identity)>>
                                     ELSE <<>>]

----------------------------------------------------------------------------
(* The cleanup timer *)

\* Stale with the comparison >= in place of >
StaleAtTTL(connection, t) == t - connection.connectedAt >= TTL

\* Stale with a limit of 24 hours in place of TTL
StaleAfterADay(connection, t) == t - connection.connectedAt > 24 * 60 * 60 * 1000

Stale(connection, t) == t - connection.connectedAt > TTL

\* sweep as a loop over an array index, which steps over the entry that
\* moved up into the place of a deleted one
RECURSIVE sweepSkipping(_, _, _, _)
sweepSkipping(m, k, t, log) ==
    IF k > Len(m) THEN [connections |-> m, log |-> log]
    ELSE IF t - m[k].connectedAt > TTL
         THEN sweepSkipping(SubSeq(m, 1, k - 1) \o SubSeq(m, k + 1, Len(m)), k + 1, t,
                            Append(log, m[k].identity))
         ELSE sweepSkipping(m, k + 1, t, log)

\* the for...of loop over the Map from entry k on: deleting the entry that
\* is being visited moves the following entries up, and the iterator
\* visits them all the same
\* its result is the Map after the loop and the identities it logged
RECURSIVE sweep(_, _, _, _)
sweep(m, k, t, log) ==
    IF k > Len(m) THEN [connections |-> m, log |-> log]
    ELSE IF Stale(m[k], t)
         THEN sweep(SubSeq(m, 1, k - 1) \o SubSeq(m, k + 1, Len(m)), k, t,
                    Append(log, m[k].identity))
         ELSE sweep(m, k + 1, t, log)

\* the setInterval callback
Cleanup ==
    LET swept == sweep(activeConnections, 1, now, <<>>)
    IN  /\ now >= nextReap
        /\ activeConnections' = swept.connections
        /\ nextReap' = now + ReapPeriod
        /\ last' = [op |-> "cleanup", log |-> swept.log]
        /\ UNCHANGED <<callStates, companies, now>>

----------------------------------------------------------------------------
(* findAvailableAgent *)

\* firstOnExtension without the test of the extension
RECURSIVE firstOnAnyExtension(_, _, _, _)
firstOnAnyExtension(m, k, company, preferredExtension) ==
    IF k > Len(m) THEN null
    ELSE IF m[k].company = company /\ m[k].available
         THEN m[k].identity
         ELSE firstOnAnyExtension(m, k + 1, company, preferredExtension)

\* the first entry from k on that passes the test of the first loop
RECURSIVE firstOnExtension(_, _, _, _)
firstOnExtension(m, k, company, preferredExtension) ==
    IF k > Len(m) THEN null
    ELSE IF /\ m[k].company = company
            /\ m[k].extension = preferredExtension
            /\ m[k].available
         THEN m[k].identity
         ELSE firstOnExtension(m, k + 1, company, preferredExtension)

\* firstInCompany returning the last such entry instead of the first
RECURSIVE lastInCompany(_, _, _)
lastInCompany(m, k, company) ==
    IF k > Len(m) THEN null
    ELSE LET later == lastInCompany(m, k + 1, company)
         IN  IF later # null THEN later
             ELSE IF m[k].company = company /\ m[k].available
                  THEN m[k].identity
                  ELSE null

\* firstInCompany without the test of the company
RECURSIVE firstAvailable(_, _, _)
firstAvailable(m, k, company) ==
    IF k > Len(m) THEN null
    ELSE IF m[k].available
         THEN m[k].identity
         ELSE firstAvailable(m, k + 1, company)

\* the first entry from k on that passes the test of the second loop
RECURSIVE firstInCompany(_, _, _)
firstInCompany(m, k, company) ==
    IF k > Len(m) THEN null
    ELSE IF m[k].company = company /\ m[k].available
         THEN m[k].identity
         ELSE firstInCompany(m, k + 1, company)

\* findAvailableAgent without its first loop
findAnyAgent(company, preferredExtension) ==
    IF \E k \in 1..Len(activeConnections) :
          activeConnections[k].company = company /\ activeConnections[k].available
    THEN LET k == CHOOSE k \in 1..Len(activeConnections) :
                     /\ activeConnections[k].company = company
                     /\ activeConnections[k].available
                     /\ \A j \in 1..(k - 1) :
                           ~(activeConnections[j].company = company
                             /\ activeConnections[j].available)
         IN  activeConnections[k].identity
    ELSE null

findAvailableAgent(company, preferredExtension) ==
    LET preferred == firstOnExtension(activeConnections, 1, company, preferredExtension)
    IN  IF preferred # null THEN preferred
        ELSE firstInCompany(activeConnections, 1, company)

----------------------------------------------------------------------------
(* The IVR menus *)

\* what a caller's keypress arrives as: one key (numDigits: 1), the empty
\* string, or no Digits field at all
DigitInputs ==
    {<<d>> : d \in {"0", "1", "2", "3", "4", "5", "6", "7", "8", "9", "*", "#"}}
        \cup {empty, null}

\* connectivMenu without the default branch of the switch
connectivMenuNoDefault(Digits) ==
    CASE Digits = <<"1">> -> [extension |-> x101, extensionName |-> "Reception"]
      [] Digits = <<"2">> -> [extension |-> x102, extensionName |-> "Sales"]
      [] Digits = <<"3">> -> [extension |-> x103, extensionName |-> "Support"]
      [] Digits = <<"4">> -> [extension |-> x104, extensionName |-> "Manager"]
      [] OTHER -> [extension |-> null, extensionName |-> "undefined"]

\* the switch of POST /api/incoming/connectiv/menu
connectivMenu(Digits) ==
    CASE Digits = <<"1">> -> [extension |-> x101, extensionName |-> "Reception"]
      [] Digits = <<"2">> -> [extension |-> x102, extensionName |-> "Sales"]
      [] Digits = <<"3">> -> [extension |-> x103, extensionName |-> "Support"]
      [] Digits = <<"4">> -> [extension |-> x104, extensionName |-> "Manager"]
      [] OTHER -> [extension |-> x101, extensionName |-> "Reception"]

\* the switch of POST /api/incoming/booksnpayroll/menu
booksnpayrollMenu(Digits) ==
    CASE Digits = <<"1">> -> [extension |-> x201, extensionName |-> "Accounting"]
      [] Digits = <<"2">> -> [extension |-> x202, extensionName |-> "Payroll"]
      [] Digits = <<"3">> -> [extension |-> x203, extensionName |-> "Bookkeeping"]
      [] Digits = <<"4">> -> [extension |-> x204, extensionName |-> "Manager"]
      [] OTHER -> [extension |-> x201, extensionName |-> "Accounting"]

Say == [verb |-> "Say"]

\* twiml.record({action: '/api/voicemail', maxLength: 60, ...})
Record(finishOnKey) ==
    [verb |-> "Record", action |-> "/api/voicemail", maxLength |-> 60,
     finishOnKey |-> finishOnKey]

\* twiml.dial({timeout: 30, action: ...}).client(identity)
Dial(identity, action) ==
    [verb |-> "Dial", client |-> identity, timeout |-> 30, action |-> action]

\* connect without the test of availableAgent
connectAlways(availableAgent, action, finishOnKey) ==
    <<Say, Dial(availableAgent, action)>>

\* the TwiML the menu and default handlers build around findAvailableAgent
connect(availableAgent, action, finishOnKey) ==
    IF Truthy(availableAgent)
    THEN <<Say, Dial(availableAgent, action)>>
    ELSE <<Say, Say, Record(finishOnKey)>>

\* POST /api/incoming/connectiv/menu
ConnectivMenu(Digits) ==
    LET choice == connectivMenu(Digits)
        availableAgent == findAvailableAgent("connectiv", choice.extension)
    IN  /\ last' = [op |-> "menu", company |-> "connectiv", Digits |-> Digits,
                    log |-> choice, status |-> 200,
                    twiml |-> connect(availableAgent, "/api/call-status", "#")]
        /\ UNCHANGED <<activeConnections, callStates, companies, now, nextReap>>

\* POST /api/incoming/connectiv/default
ConnectivDefault ==
    LET availableAgent == findAvailableAgent("connectiv", x101)
    IN  /\ last' = [op |-> "default", company |-> "connectiv", status |-> 200,
                    twiml |-> connect(availableAgent, "", "")]
        /\ UNCHANGED <<activeConnections, callStates, companies, now, nextReap>>

\* POST /api/incoming/booksnpayroll/menu
BooksnpayrollMenu(Digits) ==
    LET choice == booksnpayrollMenu(Digits)
        availableAgent == findAvailableAgent("booksnpayroll", choice.extension)
    IN  /\ last' = [op |-> "menu", company |-> "booksnpayroll", Digits |-> Digits,
                    log |-> choice, status |-> 200,
                    twiml |-> connect(availableAgent, "", "")]
        /\ UNCHANGED <<activeConnections, callStates, companies, now, nextReap>>

\* POST /api/incoming/booksnpayroll/default
BooksnpayrollDefault ==
    LET availableAgent == findAvailableAgent("booksnpayroll", x201)
    IN  /\ last' = [op |-> "default", company |-> "booksnpayroll", status |-> 200,
                    twiml |-> connect(availableAgent, "", "")]
        /\ UNCHANGED <<activeConnections, callStates, companies, now, nextReap>>

----------------------------------------------------------------------------
(* POST /api/extensions/:company/:extension/status *)

x105 == <<"1", "0", "5">>

toStringKey == <<"t", "o", "S", "t", "r", "i", "n", "g">>

\* the :company and :extension route parameters clients send
CompanyParams == {"connectiv", "booksnpayroll", "acme", "toString"}
ExtensionParams == {x101, x201, x105, toStringKey}

\* extension names for which extensions[extension] is inherited from
\* Object.prototype, hence truthy
InheritedExtensionKeys == {toStringKey}

ExtensionStatus(company, extension, available) ==
    /\ UNCHANGED <<activeConnections, callStates, now, nextReap>>
    /\ IF ~HasCompany(company)
       THEN /\ last' = [op |-> "extension-status", company |-> company,
                        extension |-> extension, available |-> available,
                        status |-> 404]
            /\ UNCHANGED companies
       ELSE IF company \notin DOMAIN companies
       \* companies[company] is an inherited function without extensions:
       \* indexing undefined throws, and express answers 500
       THEN /\ last' = [op |-> "extension-status", company |-> company,
                        extension |-> extension, available |-> available,
                        status |-> 500]
            /\ UNCHANGED companies
       ELSE IF extension \in DOMAIN companies[company].extensions
       THEN /\ companies' = [companies EXCEPT
                                 ![company].extensions[extension].available = available]
            /\ last' = [op |-> "extension-status", company |-> company,
                        extension |-> extension, available |-> available,
                        status |-> 200]
       ELSE IF extension \in InheritedExtensionKeys
       \* the flag is stored on the inherited function, not in the table
       THEN /\ last' = [op |-> "extension-status", company |-> company,
                        extension |-> extension, available |-> available,
                        status |-> 200]
            /\ UNCHANGED companies
       ELSE /\ last' = [op |-> "extension-status", company |-> company,
                        extension |-> extension, available |-> available,
                        status |-> 404]
            /\ UNCHANGED companies

----------------------------------------------------------------------------
(* Outbound calls *)

\* numbers the dialer asks to call: one, and none
Destinations == {"+15550123", ""}

\* companies[company].phoneNumber: a name inherited from Object.prototype
\* is a function, which has no phoneNumber
phoneNumber(company) ==
    IF company \in DOMAIN companies THEN companies[company].phoneNumber
    ELSE "undefined"

getCallerIdForIdentity(identity) ==
    IF MapHas(activeConnections, identity)
    THEN phoneNumber(MapGet(activeConnections, identity).company)
    ELSE "+18562307373"

\* twiml.dial({callerId, record, recordingStatusCallback}).number(To)
DialNumber(To, callerId) ==
    [verb |-> "Dial", number |-> To, callerId |-> callerId,
     record |-> "record-from-answer",
     recordingStatusCallback |-> "/api/recording-status"]

\* POST /api/voice; `identity` is req.body.identity
Voice(To, From, identity) ==
    LET callerIdentity == IF Truthy(From) THEN From ELSE identity
    IN  /\ last' = [op |-> "voice", status |-> 200, log |-> callerIdentity,
                    twiml |-> IF To # ""
                              THEN <<DialNumber(To, getCallerIdForIdentity(callerIdentity))>>
                              ELSE <<Say>>]
        /\ UNCHANGED <<activeConnections, callStates, companies, now, nextReap>>

----------------------------------------------------------------------------
(* The call-state store *)

\* CallSids of the inbound calls this process answers
InboundCallSids == {"CA1"}

\* CallSids status callbacks name: a call answered here, and one this
\* process never saw
CallbackCallSids == {"CA1", "CA2"}

Callers == {"+15550100"}

TerminalStatuses == {"completed", "failed", "busy", "no-answer"}

CallStatuses == {"incoming", "ringing", "in-progress"} \cup TerminalStatuses

\* the Duration field of a status callback: absent, or seconds
Durations == {"undefined", "30"}

\* Map.prototype.set on callStates
CallSet(m, CallSid, state) ==
    [sid \in DOMAIN m \cup {CallSid} |-> IF sid = CallSid THEN state ELSE m[sid]]

\* greeting whose Gather action and Redirect name routes the app does not
\* register
greetingUnrouted(company) ==
    <<[verb |-> "Gather", numDigits |-> 1, timeout |-> 10,
       action |-> "/api/incoming/" \o company \o "/menus"],
      [verb |-> "Redirect", url |-> "/api/incoming/" \o company]>>

\* the greeting both incoming handlers answer with
greeting(company) ==
    <<[verb |-> "Gather", numDigits |-> 1, timeout |-> 10,
       action |-> "/api/incoming/" \o company \o "/menu"],
      [verb |-> "Redirect", url |-> "/api/incoming/" \o company \o "/default"]>>

\* POST /api/incoming/connectiv and POST /api/incoming/booksnpayroll, which
\* differ in the company they store and greet for
Incoming(company, From, CallSid) ==
    /\ callStates' = CallSet(callStates, CallSid,
                             [from |-> From, company |-> company,
                              startTime |-> now, status |-> "incoming"])
    /\ last' = [op |-> "incoming", company |-> company, CallSid |-> CallSid,
                status |-> 200, twiml |-> greeting(company)]
    /\ UNCHANGED <<activeConnections, companies, now, nextReap>>

ConnectivIncoming(From, CallSid) == Incoming("connectiv", From, CallSid)

BooksnpayrollIncoming(From, CallSid) == Incoming("booksnpayroll", From, CallSid)

\* the assignments to the stored call state in POST /api/call-status
applyStatus(callState, CallStatus, Duration) ==
    [from |-> callState.from, company |-> callState.company,
     startTime |-> callState.startTime,
     status |-> CallStatus, duration |-> Duration, endTime |-> now]

\* CallStatusUpdate that stores a call state for a CallSid it does not know
CallStatusUpdateCreating(CallSid, CallStatus, Duration) ==
    /\ callStates' = CallSet(callStates, CallSid,
                             [status |-> CallStatus, duration |-> Duration,
                              endTime |-> now])
    /\ last' = [op |-> "call-status", CallSid |-> CallSid, status |-> 200]
    /\ UNCHANGED <<activeConnections, companies, now, nextReap>>

\* POST /api/call-status
CallStatusUpdate(CallSid, CallStatus, Duration) ==
    /\ IF CallSid \in DOMAIN callStates
       THEN callStates' = [callStates EXCEPT
                              ![CallSid] = applyStatus(@, CallStatus, Duration)]
       ELSE UNCHANGED callStates
    /\ last' = [op |-> "call-status", CallSid |-> CallSid, status |-> 200]
    /\ UNCHANGED <<activeConnections, companies, now, nextReap>>

----------------------------------------------------------------------------
(* POST /api/incoming of the second server in the file *)

ext_201 == ext_ \o x201

\* process.env.CONNECTIV_PHONE and process.env.BOOKSNPAYROLL_PHONE
phoneNumbers ==
    [connectiv |-> "+18562307373", booksnpayroll |-> "+18564053544"]

\* the To field of an inbound call: a company's number, or another one
CalledNumbers == {"+18562307373", "+18564053544", "+15550199"}

\* twiml.dial({timeout: 30, record: 'record-from-ringing'}).client(identity)
DialRecorded(identity) ==
    [verb |-> "Dial", client |-> identity, timeout |-> 30, action |-> "",
     record |-> "record-from-ringing"]

IncomingCalled(To) ==
    LET company == IF To = phoneNumbers.connectiv THEN "connectiv"
                   ELSE IF To = phoneNumbers.booksnpayroll THEN "booksnpayroll"
                   ELSE "unknown"
    IN  /\ last' = [op |-> "incoming-called", company |-> company, status |-> 200,
                    twiml |-> IF company = "connectiv"
                              THEN <<DialRecorded(ext_101)>>
                              ELSE IF company = "booksnpayroll"
                              THEN <<DialRecorded(ext_201)>>
                              ELSE <<DialRecorded(ext_101), Say>>]
        /\ UNCHANGED <<activeConnections, callStates, companies, now, nextReap>>

----------------------------------------------------------------------------
(* Specifications *)

\* the registry under token requests, the cleanup timer and the clock
Next ==
    \/ \E identity \in ClockedIdentityInputs, company \in CompanyInputs, created \in BOOLEAN :
          Token(identity, company, created)
    \/ Cleanup
    \/ Advance

Spec == Init /\ [][Next]_vars

\* the company ids of the runs under fairness: the cleanup timer does not
\* read a session's company, so one configured and one unknown id are kept
ReapCompanyInputs == {"connectiv", "acme"}

NextReap ==
    \/ \E identity \in ClockedIdentityInputs, company \in ReapCompanyInputs,
          created \in BOOLEAN :
          Token(identity, company, created)
    \/ Cleanup
    \/ Advance

\* a timer that keeps firing and a clock that keeps running
SpecReap == Init /\ [][NextReap]_vars /\ WF_vars(Cleanup) /\ WF_vars(Advance)

\* the IVR handlers reading the registry that token requests fill
NextIVR ==
    \/ \E identity \in IdentityInputs, company \in CompanyInputs, created \in BOOLEAN :
          Token(identity, company, created)
    \/ \E Digits \in DigitInputs : ConnectivMenu(Digits)
    \/ ConnectivDefault
    \/ \E Digits \in DigitInputs : BooksnpayrollMenu(Digits)
    \/ BooksnpayrollDefault

SpecIVR == Init /\ [][NextIVR]_vars

\* the call-state store under inbound calls and status callbacks
NextCalls ==
    \/ \E From \in Callers, CallSid \in InboundCallSids :
          ConnectivIncoming(From, CallSid)
    \/ \E From \in Callers, CallSid \in InboundCallSids :
          BooksnpayrollIncoming(From, CallSid)
    \/ \E CallSid \in CallbackCallSids, CallStatus \in CallStatuses,
          Duration \in Durations :
          CallStatusUpdate(CallSid, CallStatus, Duration)
    \/ Cleanup
    \/ Advance

SpecCalls == Init /\ [][NextCalls]_vars

\* outbound calls of the dialer while token requests fill the registry
NextVoice ==
    \/ \E identity \in IdentityInputs, company \in CompanyInputs, created \in BOOLEAN :
          Token(identity, company, created)
    \/ \E To \in Destinations, From \in IdentityInputs, identity \in {ext_101, empty} :
          Voice(To, From, identity)

SpecVoice == Init /\ [][NextVoice]_vars

\* extension flags set while token requests fill the registry
NextAdmin ==
    \/ \E identity \in IdentityInputs, company \in CompanyInputs, created \in BOOLEAN :
          Token(identity, company, created)
    \/ \E company \in CompanyParams, extension \in ExtensionParams, available \in BOOLEAN :
          ExtensionStatus(company, extension, available)

SpecAdmin == Init /\ [][NextAdmin]_vars

\* every handler that answers an inbound call with a Dial, with the token
\* requests and the extension status requests that precede it
NextRouting ==
    \/ \E identity \in IdentityInputs, company \in CompanyInputs, created \in BOOLEAN :
          Token(identity, company, created)
    \/ \E company \in CompanyParams, extension \in ExtensionParams, available \in BOOLEAN :
          ExtensionStatus(company, extension, available)
    \/ \E Digits \in DigitInputs : ConnectivMenu(Digits)
    \/ ConnectivDefault
    \/ \E Digits \in DigitInputs : BooksnpayrollMenu(Digits)
    \/ BooksnpayrollDefault
    \/ \E To \in CalledNumbers : IncomingCalled(To)

SpecRouting == Init /\ [][NextRouting]_vars

----------------------------------------------------------------------------
(* Vocabulary of the properties *)

\* the places in the registry of the available sessions of company T
SessionsIn(T) ==
    {k \in 1..Len(activeConnections) :
        activeConnections[k].company = T /\ activeConnections[k].available}

\* the places in the registry of the available sessions at extension E of T
SessionsAt(T, E) ==
    {k \in SessionsIn(T) : activeConnections[k].extension = E}

Earliest(S) == CHOOSE k \in S : \A j \in S : k <= j

ExtensionInputs == ConnectivExtensions \cup BooksnpayrollExtensions

Registered == last.op = "token" /\ last.status = 200

Verbs(twiml, verb) == {k \in 1..Len(twiml) : twiml[k].verb = verb}

----------------------------------------------------------------------------
(* C1 *)

\* C1: once a call state has a terminal status, a later POST /api/call-status
\* for the same CallSid leaves its status, end time and duration as they were.
C1_TerminalStatusIsFinal ==
    [][last'.op = "call-status" =>
         \A sid \in DOMAIN callStates :
            callStates[sid].status \in TerminalStatuses =>
               /\ callStates'[sid].status = callStates[sid].status
               /\ callStates'[sid].endTime = callStates[sid].endTime
               /\ callStates'[sid].duration = callStates[sid].duration]_vars

----------------------------------------------------------------------------
(* C2 *)

\* C2 as stated: right after a token request registers an identity, whose
\* extension is E, under company T, findAvailableAgent(T, E) is that identity.
C2_RegisteredIsFound ==
    Registered =>
        findAvailableAgent(last.company,
                           MapGet(activeConnections, last.identity).extension)
            = last.identity

\* C2 as amended: right after a token request registers an identity, whose
\* extension is E, under company T, findAvailableAgent(T, E) is the identity
\* of the earliest session at (T, E) in the Map's insertion order; it is the
\* registered identity exactly when no other session at (T, E) stands before
\* it in that order.
C2_RegisteredExtensionIsFound ==
    Registered =>
        LET T == last.company
            E == MapGet(activeConnections, last.identity).extension
            found == findAvailableAgent(T, E)
            here == MapIndex(activeConnections, last.identity)
        IN  /\ here \in SessionsAt(T, E)
            /\ found = activeConnections[Earliest(SessionsAt(T, E))].identity
            /\ found = last.identity <=> \A k \in SessionsAt(T, E) : here <= k

\* a registration at an extension of a company where another session is
\* registered too
C2_Witness ==
    /\ Registered
    /\ Cardinality(SessionsAt(last.company,
                              MapGet(activeConnections, last.identity).extension)) >= 2

----------------------------------------------------------------------------
(* C3 *)

\* C3: when no available session is at (T, E) and company T has an available
\* session, findAvailableAgent(T, E) is the earliest available session of T
\* in the Map's insertion order.
C3_FallbackIsEarliestInCompany ==
    \A T \in CompanyInputs, E \in ExtensionInputs :
        (SessionsAt(T, E) = {} /\ SessionsIn(T) # {}) =>
            findAvailableAgent(T, E) = activeConnections[Earliest(SessionsIn(T))].identity

\* a menu choice of an extension nobody is registered at, in a company with
\* two sessions, answered with a dial
C3_Witness ==
    /\ last.op = "menu"
    /\ SessionsAt(last.company, last.log.extension) = {}
    /\ Cardinality(SessionsIn(last.company)) >= 2
    /\ Verbs(last.twiml, "Dial") # {}

----------------------------------------------------------------------------
(* C4 *)

\* C4: findAvailableAgent(T, E) is null when company T has no available
\* session, and an identity it returns is registered under company T.
C4_NoneOutsideCompany ==
    \A T \in CompanyInputs, E \in ExtensionInputs :
        LET found == findAvailableAgent(T, E)
        IN  /\ SessionsIn(T) = {} => found = null
            /\ found # null =>
                  /\ MapHas(activeConnections, found)
                  /\ MapGet(activeConnections, found).company = T

\* a menu step of a company without sessions while another company has
\* sessions, answered without a dial
C4_Witness ==
    /\ last.op = "menu"
    /\ SessionsIn(last.company) = {}
    /\ activeConnections # <<>>
    /\ Verbs(last.twiml, "Dial") = {}

----------------------------------------------------------------------------
(* C5 *)

\* C5: a run of the cleanup timer deletes a session only if the clock minus
\* the session's current connectedAt is greater than the 4 hours.
C5_CleanupDeletesOnlyStale ==
    [][last'.op = "cleanup" =>
         \A k \in 1..Len(activeConnections) :
            ~MapHas(activeConnections', activeConnections[k].identity) =>
                now - activeConnections[k].connectedAt > 4 * 60 * 60 * 1000]_vars

\* a cleanup that left a session whose age is exactly the 4 hours
C5_Witness ==
    /\ last.op = "cleanup"
    /\ \E k \in 1..Len(activeConnections) :
          now - activeConnections[k].connectedAt = 4 * 60 * 60 * 1000

----------------------------------------------------------------------------
(* C6 *)

\* C6: right after a run of the cleanup timer no session older than the 4
\* hours is in the registry, and every session that was younger than the 4
\* hours is still there, unchanged.
C6_CleanupRemovesAllStale ==
    [][last'.op = "cleanup" =>
         /\ \A k \in 1..Len(activeConnections') :
               ~(now' - activeConnections'[k].connectedAt > 4 * 60 * 60 * 1000)
         /\ \A k \in 1..Len(activeConnections) :
               now - activeConnections[k].connectedAt < 4 * 60 * 60 * 1000 =>
                  \E j \in 1..Len(activeConnections') :
                     activeConnections'[j] = activeConnections[k]]_vars

\* a cleanup that deleted a session and left a younger one
C6_Witness ==
    /\ last.op = "cleanup"
    /\ last.log # <<>>
    /\ \E k \in 1..Len(activeConnections) :
          now - activeConnections[k].connectedAt < 4 * 60 * 60 * 1000

----------------------------------------------------------------------------
(* C7 *)

\* C7: right after a token request registers an identity, the registry holds
\* exactly one session for it, under the company of this request, connected
\* now and available, and findAvailableAgent for any other company does not
\* return the identity.
C7_ReregistrationReplaces ==
    Registered =>
        /\ Cardinality({k \in 1..Len(activeConnections) :
                           activeConnections[k].identity = last.identity}) = 1
        /\ Cardinality(MapKeys(activeConnections)) = Len(activeConnections)
        /\ LET session == MapGet(activeConnections, last.identity)
           IN  /\ session.company = last.company
               /\ session.connectedAt = now
               /\ session.available
        /\ \A T \in CompanyInputs \ {last.company}, E \in ExtensionInputs :
              findAvailableAgent(T, E) # last.identity

\* a registration that replaced an older session of the identity under
\* another company
C7_Witness ==
    /\ Registered
    /\ last.replaced # <<>>
    /\ last.replaced[1].company # last.company
    /\ last.replaced[1].connectedAt < now

----------------------------------------------------------------------------
(* C8 *)

\* C8: every session in the registry is under a configured company and its
\* extension is one of that company's extensions.
C8_SessionsNameConfiguredExtensions ==
    \A k \in 1..Len(activeConnections) :
        /\ activeConnections[k].company \in DOMAIN companies
        /\ activeConnections[k].extension
              \in DOMAIN companies[activeConnections[k].company].extensions

----------------------------------------------------------------------------
(* C9 *)

\* the extensions of each company in the order of its table, and the
\* extension its menu falls back to
MenuOrder ==
    [connectiv |-> <<x101, x102, x103, x104>>,
     booksnpayroll |-> <<x201, x202, x203, x204>>]

\* C9: the menu step selects, for every input, an extension of the company's
\* table: the first to fourth for the keys 1 to 4, and the company's first
\* extension (101, 201) for every other input.
C9_DigitMappingIsTotal ==
    last.op = "menu" =>
        LET order == MenuOrder[last.company]
            chosen == last.log.extension
        IN  /\ chosen \in DOMAIN companies[last.company].extensions
            /\ \A d \in 1..4 : last.Digits = <<ToString(d)>> => chosen = order[d]
            /\ last.Digits \notin {<<ToString(d)>> : d \in 1..4} => chosen = order[1]

\* a menu step without a Digits field, which selected extension 201
C9_Witness ==
    /\ last.op = "menu"
    /\ last.Digits = null
    /\ last.log.extension = x201

----------------------------------------------------------------------------
(* C10 *)

\* the extension a menu or default step asked findAvailableAgent for
Asked == IF last.op = "menu" THEN last.log.extension ELSE MenuOrder[last.company][1]

\* C10: every menu and default response holds exactly one of a dial and a
\* record instruction, the record one exactly when findAvailableAgent is
\* null, and so whenever the company has no session; the response is no error.
C10_VoicemailWhenNoAgent ==
    last.op \in {"menu", "default"} =>
        LET dials == Verbs(last.twiml, "Dial")
            records == Verbs(last.twiml, "Record")
        IN  /\ last.status = 200
            /\ Cardinality(dials) + Cardinality(records) = 1
            /\ records # {} <=> findAvailableAgent(last.company, Asked) = null
            /\ (\A k \in 1..Len(activeConnections) :
                   activeConnections[k].company # last.company) => records # {}
            /\ \A k \in dials :
                  last.twiml[k].client = findAvailableAgent(last.company, Asked)

\* connectiv, the caller presses 2, nobody is registered under connectiv:
\* the response records a message
C10_Witness ==
    /\ last.op = "menu"
    /\ last.company = "connectiv"
    /\ last.Digits = <<"2">>
    /\ \A k \in 1..Len(activeConnections) : activeConnections[k].company # "connectiv"
    /\ Verbs(last.twiml, "Record") # {}
    /\ Verbs(last.twiml, "Dial") = {}

----------------------------------------------------------------------------
(* C11 *)

\* ext_101 has a session under connectiv
Ext101AtConnectiv ==
    /\ MapHas(activeConnections, ext_101)
    /\ MapGet(activeConnections, ext_101).company = "connectiv"

\* C11 as stated: while ext_101 is registered under connectiv, the connectiv
\* menu step for the key 1 answers with a dial that names ext_101.
C11_PressOneDialsExt101 ==
    (/\ last.op = "menu"
     /\ last.company = "connectiv"
     /\ last.Digits = <<"1">>
     /\ Ext101AtConnectiv) =>
        \E k \in Verbs(last.twiml, "Dial") : last.twiml[k].client = ext_101

\* C11 as amended: when a session is registered at the extension the pressed
\* key maps to, the menu step answers with one dial, which names the earliest
\* session at that extension of that company in the Map's insertion order;
\* for connectiv and the key 1 with ext_101 registered this is ext_101 exactly
\* when no other session at connectiv's 101 stands before it.
C11_PressedExtensionIsDialled ==
    (last.op = "menu" /\ SessionsAt(last.company, last.log.extension) # {}) =>
        LET at == SessionsAt(last.company, last.log.extension)
            dials == Verbs(last.twiml, "Dial")
        IN  /\ Cardinality(dials) = 1
            /\ \A k \in dials :
                  /\ last.twiml[k].client = activeConnections[Earliest(at)].identity
                  /\ \E j \in at : activeConnections[j].identity = last.twiml[k].client
                  /\ (/\ last.company = "connectiv"
                      /\ last.Digits = <<"1">>
                      /\ Ext101AtConnectiv) =>
                        (last.twiml[k].client = ext_101 <=>
                            \A j \in at : MapIndex(activeConnections, ext_101) <= j)

\* ext_101 is registered under connectiv, the caller presses 1, the dial
\* names ext_101
C11_Witness ==
    /\ last.op = "menu"
    /\ last.company = "connectiv"
    /\ last.Digits = <<"1">>
    /\ Ext101AtConnectiv
    /\ \E k \in Verbs(last.twiml, "Dial") : last.twiml[k].client = ext_101

----------------------------------------------------------------------------
(* C12 *)

\* C12: an incoming-call request for a CallSid that already has a call state
\* leaves the store as it was: the state of that call is unchanged and no
\* entry is added.
C12_RepeatedBeginIsNoOp ==
    [][(last'.op = "incoming" /\ last'.CallSid \in DOMAIN callStates) =>
          callStates' = callStates]_vars

----------------------------------------------------------------------------
(* C13 *)

\* C13: a status callback for a CallSid without a call state is answered 200,
\* adds no call state and leaves the call states and the registry unchanged.
C13_UnknownCallIsNoOp ==
    [][(last'.op = "call-status" /\ last'.CallSid \notin DOMAIN callStates) =>
          /\ last'.status = 200
          /\ callStates' = callStates
          /\ activeConnections' = activeConnections]_vars

\* a status callback for a CallSid the store does not hold, while it holds
\* another call
C13_Witness ==
    /\ last.op = "call-status"
    /\ last.CallSid \notin DOMAIN callStates
    /\ DOMAIN callStates # {}

----------------------------------------------------------------------------
(* C14 *)

\* C14: for a company that is not configured, the routing lookup gives an
\* outcome of its own: neither the null that stands for "no agent available"
\* nor the identity of an agent to connect.
C14_UnknownTenantIsDistinct ==
    \A T \in CompanyInputs \ DOMAIN companies, E \in ExtensionInputs :
        LET outcome == findAvailableAgent(T, E)
        IN  outcome # null /\ ~MapHas(activeConnections, outcome)

----------------------------------------------------------------------------
(* C15 *)

\* C15: the caller id of an outbound dial is, for a registered identity, the
\* phone number of the configured company of its session, and for an
\* identity without a session the default number.
C15_CallerIdIsResolved ==
    (last.op = "voice" /\ Verbs(last.twiml, "Dial") # {}) =>
        \A k \in Verbs(last.twiml, "Dial") :
            IF MapHas(activeConnections, last.log)
            THEN LET company == MapGet(activeConnections, last.log).company
                 IN  /\ company \in DOMAIN companies
                     /\ last.twiml[k].callerId = companies[company].phoneNumber
            ELSE last.twiml[k].callerId = "+18562307373"

----------------------------------------------------------------------------
(* C16: one inbound call from the greeting to its outcome *)

\* The provider runs the TwiML of the last response: a key pressed during
\* the Gather is posted to the Gather's action, and when the Gather times
\* out the Redirect that follows it is requested.  The position of the call
\* in flight is the response in `last`; token requests arrive between calls
\* (the greeting does not read the registry, so the registry a menu or
\* default step reads is any registry token requests can build).

AtGreeting == last.op = "incoming"

GatherTo(url) ==
    /\ AtGreeting
    /\ \E k \in Verbs(last.twiml, "Gather") : last.twiml[k].action = url

RedirectTo(url) ==
    /\ AtGreeting
    /\ \E k \in Verbs(last.twiml, "Redirect") : last.twiml[k].url = url

\* the request the provider makes next for the call in flight
FlowStep ==
    \/ \E Digits \in DigitInputs :
          GatherTo("/api/incoming/connectiv/menu") /\ ConnectivMenu(Digits)
    \/ RedirectTo("/api/incoming/connectiv/default") /\ ConnectivDefault
    \/ \E Digits \in DigitInputs :
          GatherTo("/api/incoming/booksnpayroll/menu") /\ BooksnpayrollMenu(Digits)
    \/ RedirectTo("/api/incoming/booksnpayroll/default") /\ BooksnpayrollDefault

NextFlow ==
    \/ \E identity \in IdentityInputs, company \in CompanyInputs, created \in BOOLEAN :
          ~AtGreeting /\ Token(identity, company, created)
    \/ \E From \in Callers, CallSid \in InboundCallSids :
          ~AtGreeting /\ ConnectivIncoming(From, CallSid)
    \/ \E From \in Callers, CallSid \in InboundCallSids :
          ~AtGreeting /\ BooksnpayrollIncoming(From, CallSid)
    \/ FlowStep

\* the provider does request the next step of a call in flight
SpecFlow == Init /\ [][NextFlow]_vars /\ WF_vars(FlowStep)

\* the response is one of the outcomes: a dial to an agent or a voicemail
\* recording, from the menu step or from the default route
Outcome ==
    /\ last.op \in {"menu", "default"}
    /\ last.status = 200
    /\ Cardinality(Verbs(last.twiml, "Dial")) + Cardinality(Verbs(last.twiml, "Record")) = 1

\* C16: a call at the greeting always has a next step, for every input, and
\* every next step answers with exactly one outcome (a dial or a voicemail
\* recording, by the menu or by the default route); so every call that was
\* greeted reaches an outcome, one step later.
C16_IVRReachesOutcome ==
    /\ [](AtGreeting =>
            /\ \A Digits \in DigitInputs :
                  ENABLED (FlowStep /\ last'.op = "menu" /\ last'.Digits = Digits)
            /\ ENABLED (FlowStep /\ last'.op = "default"))
    /\ [][AtGreeting => Outcome']_vars
    /\ AtGreeting ~> Outcome

\* a greeted call whose menu request carried no Digits field, answered with
\* a voicemail recording
C16_Witness ==
    /\ Outcome
    /\ last.op = "menu"
    /\ last.Digits = null
    /\ Verbs(last.twiml, "Record") # {}
    /\ callStates # <<>>

----------------------------------------------------------------------------
(* C17 *)

\* C17: a status request for a company that is not configured, or for an
\* extension that is not in the company's table, is answered 404 and changes
\* nothing; a request that names an extension of a configured company changes
\* the available flag of that extension and nothing else.
C17_SetAvailabilityNotFound ==
    [][last'.op = "extension-status" =>
         IF /\ last'.company \in DOMAIN companies
            /\ last'.extension \in DOMAIN companies[last'.company].extensions
         THEN /\ last'.status = 200
              /\ companies' =
                    [companies EXCEPT
                        ![last'.company].extensions[last'.extension].available =
                            last'.available]
              /\ UNCHANGED <<activeConnections, callStates>>
         ELSE /\ last'.status = 404
              /\ UNCHANGED <<companies, activeConnections, callStates>>]_vars

----------------------------------------------------------------------------
(* C18 *)

\* C18: a status callback for a known call whose status is not terminal
\* leaves the record with the status of the callback, and the record has an
\* end time and a duration if and only if that status is terminal: after a
\* callback with ringing or in-progress it has neither.
C18_EndTimeOnlyWhenTerminal ==
    [][(/\ last'.op = "call-status"
        /\ last'.CallSid \in DOMAIN callStates
        /\ callStates[last'.CallSid].status \notin TerminalStatuses)
       => /\ callStates'[last'.CallSid].status \in CallStatuses
          /\ "endTime" \in DOMAIN callStates'[last'.CallSid]
                <=> callStates'[last'.CallSid].status \in TerminalStatuses
          /\ "duration" \in DOMAIN callStates'[last'.CallSid]
                <=> callStates'[last'.CallSid].status \in TerminalStatuses]_vars

----------------------------------------------------------------------------
(* C19 *)

\* C19: every Dial to an agent that a menu handler or a default handler
\* answers, for either company, has the timeout of 30 seconds and an action
\* URL for the status callback.
C19_DialHasTimeoutAndAction ==
    last.op \in {"menu", "default"} =>
        \A k \in Verbs(last.twiml, "Dial") :
            /\ last.twiml[k].timeout = 30
            /\ last.twiml[k].action = "/api/call-status"

----------------------------------------------------------------------------
(* C21 *)

\* C21: every Dial to a client that a handler answers an inbound call with
\* names an identity that has, at that moment, a session in activeConnections
\* with available true under the company that was called; no handler dials a
\* fixed identity or one without a session.
C21_DialledAgentIsRegistered ==
    last.op \in {"menu", "default", "incoming-called"} =>
        \A k \in Verbs(last.twiml, "Dial") :
            \E j \in SessionsIn(last.company) :
                activeConnections[j].identity = last.twiml[k].client

----------------------------------------------------------------------------
(* C22 *)

\* C22: right after a status request has set extension E of company T
\* unavailable (answered 200), the first loop of findAvailableAgent(T, E)
\* finds no session: the flag findAvailableAgent reads is the one the status
\* request wrote.
C22_UnavailableExtensionIsSkipped ==
    (/\ last.op = "extension-status"
     /\ last.status = 200
     /\ last.available = FALSE
     /\ last.company \in DOMAIN companies
     /\ last.extension \in DOMAIN companies[last.company].extensions)
    => firstOnExtension(activeConnections, 1, last.company, last.extension) = null

----------------------------------------------------------------------------
(* C23 *)

\* the session of `identity` that was stored at time t is in the registry
SessionOf(identity, t) ==
    /\ MapHas(activeConnections, identity)
    /\ MapGet(activeConnections, identity).connectedAt = t

\* the times at which a session can be stored and still reach the first
\* cleanup after its 4 hours before the clock stops
ReapableTimes ==
    {k * Quantum : k \in {j \in 0..MaxTicks :
                             j * Quantum + TTL + ReapPeriod <= MaxTicks * Quantum}}

\* C23: with a cleanup timer that keeps firing and a clock that keeps
\* running, a session that no later token request replaces is eventually
\* absent from the registry; no session is in the registry later than the
\* first cleanup after its age passed the 4 hours; and an identity that is
\* absent becomes present only by a token request for it.
C23_SessionsAreReaped ==
    /\ \A identity \in ClockedIdentityInputs :
          \A t \in ReapableTimes :
             SessionOf(identity, t) ~> ~SessionOf(identity, t)
    /\ [](\A k \in 1..Len(activeConnections) :
             now - activeConnections[k].connectedAt <= TTL + ReapPeriod)
    /\ [][\A identity \in ClockedIdentityInputs :
             (~MapHas(activeConnections, identity) /\ MapHas(activeConnections', identity))
                => (last'.op = "token" /\ last'.status = 200
                    /\ last'.identity = identity)]_vars

\* the cleanup that ran 4 hours and 30 minutes after the start and deleted a
\* session stored at the start
C23_Witness ==
    /\ last.op = "cleanup"
    /\ now = TTL + ReapPeriod
    /\ \E k \in 1..Len(last.log) : last.log[k] = ext_101
    /\ ~MapHas(activeConnections, ext_101)

====
